---- MODULE Spec2Model ----
(***************************************************************************)
(* A model of the Lichess client of src/lib.rs: the unary calls (get_raw,  *)
(* post_raw, get, post, email, ai, make_move, resign) with their response  *)
(* classification, and the streaming calls (stream, ndjson) with the line  *)
(* splitter (tokio's StreamReader + lines()), the filter_map closures and   *)
(* the typed decoder (serde_json::from_str).                                *)
(*                                                                         *)
(* One behaviour is one call of one operation on a client.                 *)
(***************************************************************************)
EXTENDS Integers, Sequences, FiniteSets, TLC

VARIABLES
    op,        \* the operation the caller invoked; "none" before the call
    status,    \* res.status().as_u16() of the exchange (0: no response)
    body,      \* res.text() of a unary exchange
    result,    \* what the call returned to the caller
    target,    \* the type parameter T of ndjson::<T>
    wire,      \* the bytes the server sends on the streaming body
    pos,       \* how many bytes of wire the byte source has yielded
    nchunks,   \* history: how many chunks the byte source has yielded
    src,       \* the byte source (bytes_stream): "none", "open", "eof", "err"
    chunk,     \* StreamReader: unconsumed rest of the current chunk
    buf,       \* Lines: bytes accumulated since the last line terminator
    lineLog,   \* history: every item the LinesStream yielded, in order
    parsed,    \* history: every line handed to serde_json::from_str
    out,       \* the lines (stream) or items (ndjson) delivered to the caller
    phase,     \* "idle", "done" (unary returned), "open", "ended", "dropped"
    conn,      \* the connection of the streaming response
    faulted,   \* history: the byte source has reported an error
    key,       \* Lichess.key, the credential given to Lichess::new
    sent,      \* the request the call has built and sent
    wire2,     \* a second stream open on the same client: its body,
    pos2,      \*   the bytes its byte source has yielded,
    src2,      \*   its byte source,
    chunk2,    \*   the chunk of its StreamReader,
    buf2,      \*   the accumulated bytes of its Lines,
    out2,      \*   the lines delivered to its caller,
    phase2     \*   and its phase: "idle", "open", "ended"

\* the state of the second stream
second == <<wire2, pos2, src2, chunk2, buf2, out2, phase2>>

vars == <<op, status, body, result, target, wire, pos, nchunks, src, chunk, buf,
          lineLog, parsed, out, phase, conn, faulted, key, sent, second>>

\* the state of the first call
first == <<op, status, body, result, target, wire, pos, nchunks, src, chunk,
           buf, lineLog, parsed, out, phase, conn, faulted, sent>>

streamVars == <<target, wire, pos, nchunks, src, chunk, buf, lineLog, parsed, out,
                conn, faulted>>

-----------------------------------------------------------------------------
(* Bounds *)

\* longest streaming body that is enumerated exhaustively
MaxBytes == 2

-----------------------------------------------------------------------------
(* JSON values (serde_json::Value) *)

JNull == [t |-> "null"]

JBool(b) == [t |-> "bool", b |-> b]

JNum(n) == [t |-> "num", n |-> n]

JStr(s) == [t |-> "str", s |-> s]

JObj(f) == [t |-> "obj", f |-> f]

\* the outcome of a parse that failed (Err(serde_json::Error))
JFail == [t |-> "fail"]

\* Value's Index<&str>: Null unless v is an object that has the key
Index(v, k) ==
    IF v.t = "obj" /\ k \in DOMAIN v.f THEN v.f[k] ELSE JNull

\* The response bodies of the unary exchanges.
Bodies ==
    { "",
      "not json",
      "null",
      "5",
      "{}",
      "{\"error\":\"not found\"}",
      "{\"error\":{\"message\":\"no\"}}",
      "{\"email\":\"a@b.c\"}",
      "{\"email\":7}",
      "{\"id\":\"abc\"}",
      "{\"ok\":true}",
      "{\"ok\":false}",
      "{\"ok\":1}" }

\* serde_json::from_str::<Value> on a response body
from_str(s) ==
    CASE s = "" -> JFail
      [] s = "not json" -> JFail
      [] s = "null" -> JNull
      [] s = "5" -> JNum(5)
      [] s = "{}" -> JObj([k \in {} |-> JNull])
      [] s = "{\"error\":\"not found\"}" -> JObj([error |-> JStr("not found")])
      [] s = "{\"error\":{\"message\":\"no\"}}" ->
             JObj([error |-> JObj([message |-> JStr("no")])])
      [] s = "{\"email\":\"a@b.c\"}" -> JObj([email |-> JStr("a@b.c")])
      [] s = "{\"email\":7}" -> JObj([email |-> JNum(7)])
      [] s = "{\"id\":\"abc\"}" -> JObj([id |-> JStr("abc")])
      [] s = "{\"ok\":true}" -> JObj([ok |-> JBool(TRUE)])
      [] s = "{\"ok\":false}" -> JObj([ok |-> JBool(FALSE)])
      [] s = "{\"ok\":1}" -> JObj([ok |-> JNum(1)])
      [] OTHER -> JFail

-----------------------------------------------------------------------------
(* Outcomes of a call: Response<T> = Result<T, Box<dyn Error>> *)

Ok(v) == [kind |-> "Ok", val |-> v]

\* Err(Box<ApiError{code, msg}>)
ApiError(code, msg) == [kind |-> "ApiError", code |-> code, msg |-> msg]

\* Err(Box<serde_json::Error>), from the ? after from_str
DecodeErr == [kind |-> "DecodeErr"]

\* Err(Box<reqwest::Error>), from the ? after send() or text()
TransportErr == [kind |-> "TransportErr"]

\* Err(Box<String>), from format!("{:?}", err).into()
MsgErr(v) == [kind |-> "MsgErr", val |-> v]

\* the call did not return: panic!()
Panic == [kind |-> "Panic"]

NoResult == [kind |-> "None"]

\* The exchanges a request can have: send() or text() fails, or a response
\* with a status and a body is read completely.
Statuses == {200, 201, 204, 400, 404, 500}

Exchanges ==
    {[fail |-> TRUE, status |-> 0, body |-> ""]}
      \cup [fail : {FALSE}, status : Statuses, body : Bodies]

-----------------------------------------------------------------------------
(* Requests *)

Keys == {"tokenA", "tokenB"}

\* a request sent without the credential
bearer_auth_none(k) == <<"Bearer", "">>

\* RequestBuilder::bearer_auth: the header Authorization: Bearer <key>
bearer_auth(k) == <<"Bearer", k>>

NoRequest == [method |-> "none", auth |-> <<>>]

\* self.hclient.get(url).bearer_auth(self.key.clone())
RequestGet == [method |-> "GET", auth |-> bearer_auth(key)]

\* self.hclient.post(url).bearer_auth(self.key.clone()).body(body).header(..)
RequestPost ==
    [method |-> "POST", auth |-> bearer_auth(key),
     ctype |-> "application/x-www-form-urlencoded"]

\* get, get_api and email go through get_raw, the other unary calls through
\* post_raw
RequestOf(name) ==
    IF name \in {"get_raw", "get", "email"} THEN RequestGet ELSE RequestPost

-----------------------------------------------------------------------------
(* Unary calls *)

\* get_raw taking every 2xx status for a success
get_raw_any2xx(x) ==
    IF x.fail THEN TransportErr
    ELSE IF x.status \in 200..299 THEN Ok(x.body)
    ELSE IF x.body = "" THEN ApiError(x.status, JNull)
    ELSE IF from_str(x.body) = JFail THEN DecodeErr
    ELSE ApiError(x.status, from_str(x.body))

get_raw(x) ==
    IF x.fail THEN TransportErr
    ELSE IF x.status \in {200, 201} THEN Ok(x.body)
    ELSE IF x.body = "" THEN ApiError(x.status, JNull)
    ELSE IF from_str(x.body) = JFail THEN DecodeErr
    ELSE ApiError(x.status, from_str(x.body))

\* post_raw swallowing the parse failure of an error body
post_raw_swallow(x) ==
    IF x.fail THEN TransportErr
    ELSE IF x.status \in {200, 201} THEN Ok(x.body)
    ELSE IF x.body = "" THEN ApiError(x.status, JNull)
    ELSE IF from_str(x.body) = JFail THEN ApiError(x.status, JNull)
    ELSE ApiError(x.status, from_str(x.body))

\* post_raw without the is_empty test: the empty body goes to the parser
post_raw_noempty(x) ==
    IF x.fail THEN TransportErr
    ELSE IF x.status \in {200, 201} THEN Ok(x.body)
    ELSE IF from_str(x.body) = JFail THEN DecodeErr
    ELSE ApiError(x.status, from_str(x.body))

post_raw(x) ==
    IF x.fail THEN TransportErr
    ELSE IF x.status \in {200, 201} THEN Ok(x.body)
    ELSE IF x.body = "" THEN ApiError(x.status, JNull)
    ELSE IF from_str(x.body) = JFail THEN DecodeErr
    ELSE ApiError(x.status, from_str(x.body))

\* the wrapper taking Null for a body that does not parse
ParseOkLenient(raw) ==
    IF raw.kind # "Ok" THEN raw
    ELSE IF from_str(raw.val) = JFail THEN Ok(JNull)
    ELSE Ok(from_str(raw.val))

\* Ok(serde_json::from_str(raw?.as_str())?)
ParseOk(raw) ==
    IF raw.kind # "Ok" THEN raw
    ELSE IF from_str(raw.val) = JFail THEN DecodeErr
    ELSE Ok(from_str(raw.val))

get(x) == ParseOk(get_raw(x))

post(x) == ParseOk(post_raw(x))

\* the shared shape of email, ai, make_move and resign: the ? on the call,
\* then the "error" object, then the expected field, then panic!()
Extract(res, field, type) ==
    IF res.kind # "Ok" THEN res
    ELSE IF Index(res.val, "error").t = "obj"
         THEN MsgErr(Index(res.val, "error"))
    ELSE IF Index(res.val, field).t = type
         THEN Ok(Index(res.val, field))
    ELSE Panic

email(x) == Extract(get(x), "email", "str")

ai(x) == Extract(post(x), "id", "str")

make_move(x) == Extract(post(x), "ok", "bool")

resign(x) == Extract(post(x), "ok", "bool")

Unary(name, x) ==
    /\ phase = "idle"
    /\ op' = name
    /\ status' = x.status
    /\ body' = x.body
    /\ phase' = "done"
    /\ sent' = RequestOf(name)
    /\ UNCHANGED streamVars
    /\ UNCHANGED <<key, second>>

GetRaw == \E x \in Exchanges : Unary("get_raw", x) /\ result' = get_raw(x)

PostRaw == \E x \in Exchanges : Unary("post_raw", x) /\ result' = post_raw(x)

Get == \E x \in Exchanges : Unary("get", x) /\ result' = get(x)

Post == \E x \in Exchanges : Unary("post", x) /\ result' = post(x)

Email == \E x \in Exchanges : Unary("email", x) /\ result' = email(x)

Ai == \E x \in Exchanges : Unary("ai", x) /\ result' = ai(x)

MakeMove == \E x \in Exchanges : Unary("make_move", x) /\ result' = make_move(x)

Resign == \E x \in Exchanges : Unary("resign", x) /\ result' = resign(x)

-----------------------------------------------------------------------------
(* Bytes of a streaming body *)

LF == "LF"

CR == "CR"

\* the ASCII digit 1
D1 == "1"

\* 0xC3 0xA9 is the UTF-8 encoding of one character; either byte alone, or
\* the two in the other order, is not valid UTF-8
C3 == "C3"

A9 == "A9"

Alphabet == {D1, CR, LF, C3, A9}

\* the JSON literal null
NullText == <<"n", "u", "l", "l">>

\* streaming bodies longer than MaxBytes that are enumerated one by one
ExtraTexts ==
    { <<D1, D1, LF>>,
      <<D1, LF, D1>>,
      <<D1, CR, LF>>,
      <<CR, CR, LF>>,
      <<C3, A9, LF>>,
      <<A9, LF, D1>>,
      <<D1, CR, D1, LF>>,
      <<D1, LF, C3, LF, D1, LF>>,
      <<LF, D1, LF, LF, D1, D1, LF, LF>>,
      <<D1, LF, C3, A9, LF, D1, D1, LF>>,
      NullText \o <<LF, D1, LF>>,
      <<D1, CR, LF>> \o NullText \o <<CR, LF>>,
      <<D1, LF>> \o NullText }

Texts == UNION {[1..n -> Alphabet] : n \in 0..MaxBytes} \cup ExtraTexts

None == [some |-> FALSE]

Some(v) == [some |-> TRUE, val |-> v]

\* position of the first b in s, 0 when there is none (memchr)
RECURSIVE memchr(_, _, _)
memchr(b, s, i) ==
    IF i > Len(s) THEN 0
    ELSE IF s[i] = b THEN i
    ELSE memchr(b, s, i + 1)

\* String::from_utf8(bytes).is_ok()
RECURSIVE ValidUtf8(_)
ValidUtf8(s) ==
    IF s = <<>> THEN TRUE
    ELSE IF Head(s) = C3
         THEN Len(s) >= 2 /\ s[2] = A9 /\ ValidUtf8(SubSeq(s, 3, Len(s)))
    ELSE IF Head(s) = A9 THEN FALSE
    ELSE ValidUtf8(Tail(s))

\* read_until forgetting the bytes accumulated from earlier chunks
read_until_nocarry(b, c) ==
    LET i == memchr(LF, c, 1) IN
    IF i > 0
    THEN [buf |-> b \o SubSeq(c, 1, i), chunk |-> SubSeq(c, i + 1, Len(c)),
          done |-> TRUE]
    ELSE [buf |-> c, chunk |-> <<>>, done |-> FALSE]

\* read_until losing the bytes of the chunk after the first LF
read_until_droprest(b, c) ==
    LET i == memchr(LF, c, 1) IN
    IF i > 0
    THEN [buf |-> b \o SubSeq(c, 1, i), chunk |-> <<>>, done |-> TRUE]
    ELSE [buf |-> b \o c, chunk |-> <<>>, done |-> FALSE]

\* One turn of read_until's loop on a non-empty chunk: the bytes up to and
\* including the first LF move from the chunk to the accumulated bytes and the
\* line is done; with no LF the whole chunk moves and the line is not done.
read_until(b, c) ==
    LET i == memchr(LF, c, 1) IN
    IF i > 0
    THEN [buf |-> b \o SubSeq(c, 1, i), chunk |-> SubSeq(c, i + 1, Len(c)),
          done |-> TRUE]
    ELSE [buf |-> b \o c, chunk |-> <<>>, done |-> FALSE]

\* The item Lines yields for the accumulated bytes of one line: an error when
\* they are not UTF-8, else the text without its final LF and the CR before it.
ErrItem(k) == [ok |-> FALSE, err |-> k]

OkItem(text) == [ok |-> TRUE, text |-> text]

StripLast(s, b) ==
    IF s # <<>> /\ s[Len(s)] = b THEN SubSeq(s, 1, Len(s) - 1) ELSE s

\* next_line stripping the LF only
next_line_keepcr(bytes) ==
    IF ~ValidUtf8(bytes) THEN ErrItem("InvalidData")
    ELSE OkItem(StripLast(bytes, LF))

next_line(bytes) ==
    IF ~ValidUtf8(bytes) THEN ErrItem("InvalidData")
    ELSE IF bytes # <<>> /\ bytes[Len(bytes)] = LF
         THEN OkItem(StripLast(StripLast(bytes, LF), CR))
    ELSE OkItem(bytes)

-----------------------------------------------------------------------------
(* serde_json::from_str on a line *)

\* JSON whitespace is skipped before the value and allowed after it
RECURSIVE TrimLeft(_)
TrimLeft(s) ==
    IF s # <<>> /\ Head(s) \in {CR, LF} THEN TrimLeft(Tail(s)) ELSE s

RECURSIVE TrimRight(_)
TrimRight(s) ==
    IF s # <<>> /\ s[Len(s)] \in {CR, LF}
    THEN TrimRight(SubSeq(s, 1, Len(s) - 1))
    ELSE s

RECURSIVE Decimal(_)
Decimal(s) ==
    IF s = <<>> THEN 0 ELSE 10 * Decimal(SubSeq(s, 1, Len(s) - 1)) + 1

parse_line(text) ==
    LET core == TrimRight(TrimLeft(text)) IN
    IF core = NullText THEN JNull
    ELSE IF core # <<>> /\ \A i \in 1..Len(core) : core[i] = D1
         THEN JNum(Decimal(core))
    ELSE JFail

Targets == {"i64", "unit", "Value"}

\* T::deserialize for the target types of the model
deserialize(T, v) ==
    CASE T = "i64" -> IF v.t = "num" THEN Some(v.n) ELSE None
      [] T = "unit" -> IF v.t = "null" THEN Some("unit") ELSE None
      [] T = "Value" -> Some(v)

\* the line decoded as T, not Option<T>: serde_json::from_str::<T>(line).ok()
from_str_plain(T, text) ==
    LET v == parse_line(text) IN
    IF v = JFail THEN None
    ELSE deserialize(T, v)

\* serde_json::from_str::<Option<T>>(line).ok()? : a parse error gives None
\* through the ?, the literal null is Some(None), whose value is None
from_str_option(T, text) ==
    LET v == parse_line(text) IN
    IF v = JFail THEN None
    ELSE IF v = JNull THEN None
    ELSE deserialize(T, v)

-----------------------------------------------------------------------------
(* The closures of filter_map *)

\* the stream closure without the is_empty test
stream_closure_keepblank(l) ==
    IF ~l.ok THEN None
    ELSE Some(l.text)

stream_closure(l) ==
    IF ~l.ok THEN None
    ELSE IF l.text = <<>> THEN None
    ELSE Some(l.text)

ndjson_closure(T, l) ==
    IF ~l.ok THEN None
    ELSE IF l.text = <<>> THEN None
    ELSE from_str_option(T, l.text)

\* does the ndjson closure hand the line of this item to the parser
ReachesParser(l) == l.ok /\ l.text # <<>>

\* a stream that a task detached from the handle keeps driving
AliveDetached == phase \in {"open", "dropped"}

\* the stream is driven by the caller's polls of the handle it owns
Alive == phase = "open"

\* the delivered element put before the earlier ones
YieldPrepend(l) ==
    LET r == IF op = "stream" THEN stream_closure(l)
             ELSE ndjson_closure(target, l) IN
    /\ lineLog' = Append(lineLog, l)
    /\ parsed' = IF op = "ndjson" /\ ReachesParser(l)
                 THEN Append(parsed, l.text) ELSE parsed
    /\ out' = IF r.some THEN <<r.val>> \o out ELSE out

\* LinesStream yields the item l; filter_map applies the closure of the call
Yield(l) ==
    LET r == IF op = "stream" THEN stream_closure(l)
             ELSE ndjson_closure(target, l) IN
    /\ lineLog' = Append(lineLog, l)
    /\ parsed' = IF op = "ndjson" /\ ReachesParser(l)
                 THEN Append(parsed, l.text) ELSE parsed
    /\ out' = IF r.some THEN Append(out, r.val) ELSE out

-----------------------------------------------------------------------------
(* Streaming calls *)

StreamStatuses == {200, 404}

\* send().await? : an error returns Err; any response, whatever its status,
\* becomes the byte source of the returned stream
Open ==
    /\ phase = "idle"
    /\ body' = body
    /\ sent' = RequestGet
    /\ UNCHANGED <<key, second>>
    /\ \/ /\ status' = 0
          /\ result' = TransportErr
          /\ phase' = "done"
          /\ UNCHANGED <<wire, pos, nchunks, src, chunk, buf, lineLog,
                         parsed, out, conn, faulted>>
       \/ /\ status' \in StreamStatuses
          /\ wire' \in Texts
          /\ result' = Ok("Stream")
          /\ phase' = "open"
          /\ src' = "open"
          /\ conn' = "held"
          /\ UNCHANGED <<pos, nchunks, chunk, buf, lineLog, parsed, out,
                         faulted>>

Stream ==
    /\ op' = "stream"
    /\ target' = "String"
    /\ Open

Ndjson ==
    \E T \in Targets :
        /\ op' = "ndjson"
        /\ target' = T
        /\ Open

\* StreamReader::poll_fill_buf with no chunk left: the byte source yields the
\* next chunk, a non-empty slice of what the server sends
SourceChunk ==
    /\ Alive
    /\ src = "open"
    /\ chunk = <<>>
    /\ \E k \in 1..(Len(wire) - pos) :
          /\ chunk' = SubSeq(wire, pos + 1, pos + k)
          /\ pos' = pos + k
    /\ nchunks' = nchunks + 1
    /\ UNCHANGED <<key, sent, second>>
    /\ UNCHANGED <<op, status, body, result, target, wire, src, buf, lineLog,
                   parsed, out, phase, conn, faulted>>

\* the byte source ends after the last byte
SourceEof ==
    /\ Alive
    /\ src = "open"
    /\ chunk = <<>>
    /\ pos = Len(wire)
    /\ src' = "eof"
    /\ conn' = "released"
    /\ UNCHANGED <<key, sent, second>>
    /\ UNCHANGED <<op, status, body, result, target, wire, pos, nchunks, chunk,
                   buf,
                   lineLog, parsed, out, phase, faulted>>

\* The byte source reports an error (convert_err makes it an io::Error): Lines
\* yields it as an Err item, which the closure turns into None. Whether the
\* bytes accumulated for the unfinished line survive depends on the version of
\* the line reader: both outcomes are allowed.
SourceErr ==
    /\ Alive
    /\ src = "open"
    /\ chunk = <<>>
    /\ src' = "err"
    /\ conn' = "released"
    /\ faulted' = TRUE
    /\ buf' \in {buf, <<>>}
    /\ Yield(ErrItem("Other"))
    /\ UNCHANGED <<key, sent, second>>
    /\ UNCHANGED <<op, status, body, result, target, wire, pos, nchunks,
                   chunk, phase>>

\* the stream ending at the first line the closure drops (a take_while)
ReadLineStop ==
    /\ Alive
    /\ chunk # <<>>
    /\ LET r == read_until(buf, chunk)
           l == next_line(r.buf)
           c == IF op = "stream" THEN stream_closure(l)
                ELSE ndjson_closure(target, l) IN
          /\ chunk' = r.chunk
          /\ IF r.done
             THEN /\ buf' = <<>>
                  /\ Yield(l)
                  /\ phase' = IF c.some THEN phase ELSE "ended"
             ELSE /\ buf' = r.buf
                  /\ UNCHANGED <<lineLog, parsed, out, phase>>
    /\ UNCHANGED <<key, sent, second>>
    /\ UNCHANGED <<op, status, body, result, target, wire, pos, nchunks, src,
                   conn, faulted>>

\* Lines::poll_next_line with bytes in the chunk
ReadLine ==
    /\ Alive
    /\ chunk # <<>>
    /\ LET r == read_until(buf, chunk) IN
          /\ chunk' = r.chunk
          /\ IF r.done
             THEN /\ buf' = <<>>
                  /\ Yield(next_line(r.buf))
             ELSE /\ buf' = r.buf
                  /\ UNCHANGED <<lineLog, parsed, out>>
    /\ UNCHANGED <<key, sent, second>>
    /\ UNCHANGED <<op, status, body, result, target, wire, pos, nchunks, src,
                   phase,
                   conn, faulted>>

\* the end of the byte source discarding the accumulated bytes
ReadEofDiscard ==
    /\ Alive
    /\ src \in {"eof", "err"}
    /\ chunk = <<>>
    /\ phase' = "ended"
    /\ buf' = <<>>
    /\ UNCHANGED <<key, sent, second>>
    /\ UNCHANGED <<op, status, body, result, target, wire, pos, nchunks, src,
                   chunk, lineLog, parsed, out, conn, faulted>>

\* Lines::poll_next_line after the byte source has ended: the accumulated
\* bytes, when there are any, are the last line; else the stream ends
ReadEof ==
    /\ Alive
    /\ src \in {"eof", "err"}
    /\ chunk = <<>>
    /\ IF buf = <<>>
       THEN /\ phase' = "ended"
            /\ UNCHANGED <<buf, lineLog, parsed, out>>
       ELSE /\ phase' = phase
            /\ buf' = <<>>
            /\ Yield(next_line(buf))
    /\ UNCHANGED <<key, sent, second>>
    /\ UNCHANGED <<op, status, body, result, target, wire, pos, nchunks, src,
                   chunk,
                   conn, faulted>>

\* the caller drops the stream: the boxed chain and the response it owns go
Drop ==
    /\ phase \in {"open", "ended"}
    /\ phase' = "dropped"
    /\ conn' = "released"
    /\ UNCHANGED <<key, sent, second>>
    /\ UNCHANGED <<op, status, body, result, target, wire, pos, nchunks, src,
                   chunk,
                   buf, lineLog, parsed, out, faulted>>

-----------------------------------------------------------------------------
(* Two streams open at the same time on one client *)

\* the bodies of the first stream: digits only
FirstTexts ==
    { <<D1, LF, D1, D1, LF>>,
      <<D1, CR, LF, D1>>,
      <<LF, D1, D1>> }

\* the bodies of the second stream: the two-byte character only
SecondTexts ==
    { <<C3, A9, LF, C3, A9>>,
      <<LF, C3, A9, CR, LF>>,
      <<C3, A9, C3, A9, LF>> }

\* stream(url) for the first stream, answered with one of FirstTexts
StreamFirst ==
    /\ phase = "idle"
    /\ op' = "stream"
    /\ target' = "String"
    /\ sent' = RequestGet
    /\ status' = 200
    /\ wire' \in FirstTexts
    /\ result' = Ok("Stream")
    /\ phase' = "open"
    /\ src' = "open"
    /\ conn' = "held"
    /\ UNCHANGED <<body, pos, nchunks, chunk, buf, lineLog, parsed, out,
                   faulted, key, second>>

\* stream(url) called again on the same client (or a clone of it): a new
\* response, StreamReader and Lines, owned by the new boxed chain
StreamSecond ==
    /\ phase2 = "idle"
    /\ wire2' \in SecondTexts
    /\ phase2' = "open"
    /\ src2' = "open"
    /\ UNCHANGED <<pos2, chunk2, buf2, out2, key, first>>

SourceChunk2 ==
    /\ phase2 = "open"
    /\ src2 = "open"
    /\ chunk2 = <<>>
    /\ \E k \in 1..(Len(wire2) - pos2) :
          /\ chunk2' = SubSeq(wire2, pos2 + 1, pos2 + k)
          /\ pos2' = pos2 + k
    /\ UNCHANGED <<wire2, src2, buf2, out2, phase2, key, first>>

SourceEof2 ==
    /\ phase2 = "open"
    /\ src2 = "open"
    /\ chunk2 = <<>>
    /\ pos2 = Len(wire2)
    /\ src2' = "eof"
    /\ UNCHANGED <<wire2, pos2, chunk2, buf2, out2, phase2, key, first>>

\* the second stream accumulating into the buffer of the first
ReadLine2Shared ==
    /\ phase2 = "open"
    /\ chunk2 # <<>>
    /\ LET r == read_until(buf, chunk2)
           c == stream_closure(next_line(r.buf)) IN
          /\ chunk2' = r.chunk
          /\ IF r.done
             THEN /\ buf' = <<>>
                  /\ out2' = IF c.some THEN Append(out2, c.val) ELSE out2
             ELSE /\ buf' = r.buf
                  /\ out2' = out2
    /\ UNCHANGED <<wire2, pos2, src2, buf2, phase2, key>>
    /\ UNCHANGED <<op, status, body, result, target, wire, pos, nchunks, src,
                   chunk, lineLog, parsed, out, phase, conn, faulted, sent>>

ReadLine2 ==
    /\ phase2 = "open"
    /\ chunk2 # <<>>
    /\ LET r == read_until(buf2, chunk2)
           c == stream_closure(next_line(r.buf)) IN
          /\ chunk2' = r.chunk
          /\ IF r.done
             THEN /\ buf2' = <<>>
                  /\ out2' = IF c.some THEN Append(out2, c.val) ELSE out2
             ELSE /\ buf2' = r.buf
                  /\ out2' = out2
    /\ UNCHANGED <<wire2, pos2, src2, phase2, key, first>>

ReadEof2 ==
    /\ phase2 = "open"
    /\ src2 = "eof"
    /\ chunk2 = <<>>
    /\ LET c == stream_closure(next_line(buf2)) IN
       IF buf2 = <<>>
       THEN /\ phase2' = "ended"
            /\ UNCHANGED <<buf2, out2>>
       ELSE /\ phase2' = phase2
            /\ buf2' = <<>>
            /\ out2' = IF c.some THEN Append(out2, c.val) ELSE out2
    /\ UNCHANGED <<wire2, pos2, src2, chunk2, key, first>>

-----------------------------------------------------------------------------

\* the client before its first call, whatever its credential
Fresh ==
    /\ op = "none"
    /\ status = 0
    /\ body = ""
    /\ result = NoResult
    /\ target = "none"
    /\ wire = <<>>
    /\ pos = 0
    /\ nchunks = 0
    /\ src = "none"
    /\ chunk = <<>>
    /\ buf = <<>>
    /\ lineLog = <<>>
    /\ parsed = <<>>
    /\ out = <<>>
    /\ phase = "idle"
    /\ conn = "none"
    /\ faulted = FALSE
    /\ sent = NoRequest
    /\ wire2 = <<>>
    /\ pos2 = 0
    /\ src2 = "none"
    /\ chunk2 = <<>>
    /\ buf2 = <<>>
    /\ out2 = <<>>
    /\ phase2 = "idle"

\* Lichess::new(key) with one credential
Init == Fresh /\ key = "tokenA"

\* Lichess::new(key) with any of the credentials
InitKeys == Fresh /\ key \in Keys

Next ==
    \/ GetRaw
    \/ PostRaw
    \/ Get
    \/ Post
    \/ Email
    \/ Ai
    \/ MakeMove
    \/ Resign
    \/ Stream
    \/ Ndjson
    \/ SourceChunk
    \/ SourceEof
    \/ SourceErr
    \/ ReadLine
    \/ ReadEof
    \/ Drop

Spec == Init /\ [][Next]_vars

\* two calls of stream on one client, their steps interleaved in every way
NextTwo ==
    \/ StreamFirst
    \/ SourceChunk
    \/ SourceEof
    \/ ReadLine
    \/ ReadEof
    \/ StreamSecond
    \/ SourceChunk2
    \/ SourceEof2
    \/ ReadLine2
    \/ ReadEof2

SpecTwo == Init /\ [][NextTwo]_vars

\* the same calls on a client made with any of the credentials
SpecKeys == InitKeys /\ [][Next]_vars

-----------------------------------------------------------------------------
(* Reference runs used by the properties *)

\* The items Lines yields when the bytes c arrive as one chunk, with b
\* already accumulated, and the byte source then ends.
RECURSIVE SingleChunkItems(_, _)
SingleChunkItems(b, c) ==
    IF c = <<>>
    THEN IF b = <<>> THEN <<>> ELSE <<next_line(b)>>
    ELSE LET r == read_until(b, c) IN
         IF r.done
         THEN <<next_line(r.buf)>> \o SingleChunkItems(<<>>, r.chunk)
         ELSE SingleChunkItems(r.buf, r.chunk)

\* what the stream closure lets through of a sequence of items
RECURSIVE StreamFiltered(_)
StreamFiltered(items) ==
    IF items = <<>> THEN <<>>
    ELSE LET r == stream_closure(Head(items)) IN
         (IF r.some THEN <<r.val>> ELSE <<>>) \o StreamFiltered(Tail(items))

\* the texts of the items that are lines with a non-empty content
RECURSIVE NonEmptyTexts(_)
NonEmptyTexts(items) ==
    IF items = <<>> THEN <<>>
    ELSE (IF Head(items).ok /\ Head(items).text # <<>>
          THEN <<Head(items).text>> ELSE <<>>) \o NonEmptyTexts(Tail(items))

\* the values of the lines that parse as JSON into the target type T
RECURSIVE DecodedValues(_, _)
DecodedValues(T, lines) ==
    IF lines = <<>> THEN <<>>
    ELSE LET v == parse_line(Head(lines))
             d == IF v = JFail THEN None ELSE deserialize(T, v) IN
         (IF d.some THEN <<d.val>> ELSE <<>>) \o DecodedValues(T, Tail(lines))

\* the bytes of the text after its last LF
RECURSIVE Residual(_)
Residual(text) ==
    IF text = <<>> \/ text[Len(text)] = LF THEN <<>>
    ELSE Residual(SubSeq(text, 1, Len(text) - 1)) \o <<text[Len(text)]>>

\* the text up to and including its last LF
Terminated(text) == SubSeq(text, 1, Len(text) - Len(Residual(text)))

SuccessSet == {200, 201}

Completed == phase = "done" /\ status # 0

-----------------------------------------------------------------------------
(* C1 *)

\* C1: when stream has delivered a text in any number of non-empty chunks and
\* the byte source has ended, the lines delivered are those of the run in
\* which the whole text arrives as a single chunk.
C1ChunkIndependence ==
    (op = "stream" /\ phase = "ended" /\ ~faulted)
        => out = StreamFiltered(SingleChunkItems(<<>>, wire))

\* a line whose bytes came in three chunks, the last one holding the LF
C1Witness ==
    /\ op = "stream"
    /\ phase = "ended"
    /\ ~faulted
    /\ wire = <<D1, D1, LF>>
    /\ nchunks = 3
    /\ out = << <<D1, D1>> >>

(* C2 *)

\* C2: a completed exchange of get_raw or post_raw returns Ok exactly when the
\* status is 200 or 201, the Ok value is the response body unchanged, and
\* every other status returns an error.
C2Classification ==
    (op \in {"get_raw", "post_raw"} /\ Completed)
        => /\ result.kind = "Ok" <=> status \in SuccessSet
           /\ result.kind = "Ok" => result.val = body
           /\ status \notin SuccessSet
                 => result.kind \in {"ApiError", "DecodeErr", "TransportErr"}

C2Witness ==
    /\ op = "post_raw"
    /\ Completed
    /\ status = 201
    /\ body = "{\"id\":\"abc\"}"
    /\ result = Ok("{\"id\":\"abc\"}")

(* C3 *)

\* C3: for a status outside the success set, get_raw and post_raw return
\* ApiError(status, Null) for an empty body, ApiError(status, parsed body) for
\* a body that parses as JSON, and for a body that does not parse an error
\* that is not an ApiError: the decoding failure, never Ok and never a panic.
C3ErrorPayload ==
    (op \in {"get_raw", "post_raw"} /\ Completed /\ status \notin SuccessSet)
        => /\ body = "" => result = ApiError(status, JNull)
           /\ (body # "" /\ from_str(body) # JFail)
                 => result = ApiError(status, from_str(body))
           /\ (body # "" /\ from_str(body) = JFail)
                 => result.kind = "DecodeErr"

C3Witness ==
    /\ op = "post_raw"
    /\ Completed
    /\ status = 404
    /\ body = "not json"
    /\ result = DecodeErr

(* C4 *)

\* C4: email, ai, make_move and resign return Ok or Err for every response;
\* no call ends in a panic.
C4NoPanic ==
    op \in {"email", "ai", "make_move", "resign"} => result.kind # "Panic"

(* C5 *)

\* C5: the items ndjson has delivered are the decoded values of the non-empty
\* lines that parse as JSON into the target type, in line order; the other
\* lines give no item and do not end the sequence.
C5TypedDecoding ==
    op = "ndjson" => out = DecodedValues(target, parsed)

(* C6 *)

\* C6: the lines stream has delivered are the split lines with a non-empty
\* content, in order; no empty string is delivered by stream and no empty
\* line is handed to the JSON parser by ndjson.
C6BlankLines ==
    /\ op = "stream" => out = NonEmptyTexts(lineLog)
    /\ op = "stream" => \A i \in 1..Len(out) : out[i] # <<>>
    /\ \A i \in 1..Len(parsed) : parsed[i] # <<>>

\* the body LF 1 LF LF 11 LF LF: the lines "", "1", "", "11", ""
C6Witness ==
    /\ op = "stream"
    /\ phase = "ended"
    /\ wire = <<LF, D1, LF, LF, D1, D1, LF, LF>>
    /\ Len(lineLog) = 5
    /\ out = << <<D1>>, <<D1, D1>> >>

(* C7 *)

\* C7 as stated: when the byte source ends with bytes accumulated since the
\* last LF, those bytes are not emitted: stream delivers the lines of the
\* terminated part of the body only, and ndjson parses only those.
C7ResidualDiscarded ==
    (phase = "ended" /\ ~faulted)
        => /\ op = "stream"
                 => out = NonEmptyTexts(SingleChunkItems(<<>>, Terminated(wire)))
           /\ op = "ndjson"
                 => parsed = NonEmptyTexts(SingleChunkItems(<<>>, Terminated(wire)))

\* C7 amended: when the byte source ends with bytes accumulated since the
\* last LF and they are valid UTF-8, they are the last line: stream delivers
\* them, unstripped, as its last line, and ndjson hands them to the parser as
\* its last line.
C7ResidualEmitted ==
    (phase = "ended" /\ ~faulted /\ Residual(wire) # <<>>
       /\ ValidUtf8(Residual(wire)))
        => /\ op = "stream"
                 => out # <<>> /\ out[Len(out)] = Residual(wire)
           /\ op = "ndjson"
                 => parsed # <<>> /\ parsed[Len(parsed)] = Residual(wire)

C7Witness ==
    /\ op = "ndjson"
    /\ target = "i64"
    /\ phase = "ended"
    /\ ~faulted
    /\ wire = <<D1, LF, D1>>
    /\ nchunks = 2
    /\ out = <<1, 1>>

(* C8 *)

\* C8: a stream whose byte source has reported an error does not end like a
\* stream whose byte source has ended: the caller never sees the plain end of
\* the sequence after a fault.
C8FaultVisible == faulted => phase # "ended"

(* C9 *)

\* C9: a response whose status is outside the success set gives the caller an
\* error: get_raw, post_raw, stream and ndjson do not return Ok for it, and
\* none of its body is delivered as lines or items.
C9RejectionSurfaced ==
    (op \in {"get_raw", "post_raw", "stream", "ndjson"}
       /\ status # 0 /\ status \notin SuccessSet)
        => result.kind # "Ok" /\ out = <<>>

(* C10 *)

\* C10: a dropped stream has released its connection, and from then on no
\* chunk is read from the byte source, no line is split and nothing is
\* delivered.
C10Cancellation ==
    [][/\ phase' = "dropped" => conn' = "released"
       /\ phase = "dropped"
             => /\ phase' = "dropped"
                /\ pos' = pos
                /\ chunk' = chunk
                /\ lineLog' = lineLog
                /\ out' = out]_vars

\* dropped with part of the body unread and a chunk partly consumed
C10Witness ==
    /\ phase = "dropped"
    /\ conn = "released"
    /\ src = "open"
    /\ pos < Len(wire)
    /\ chunk # <<>>
    /\ out # <<>>

-----------------------------------------------------------------------------
(* Reference definitions of C11..C19 *)

\* what the ndjson closure lets through of a sequence of items
RECURSIVE NdjsonFiltered(_, _)
NdjsonFiltered(T, items) ==
    IF items = <<>> THEN <<>>
    ELSE LET r == ndjson_closure(T, Head(items)) IN
         (IF r.some THEN <<r.val>> ELSE <<>>)
             \o NdjsonFiltered(T, Tail(items))

\* the bytes of the body the line reader has taken out of the chunks
Consumed == SubSeq(wire, 1, pos - Len(chunk))

\* the item the accumulated bytes would give if the byte source ended now
Pending == IF buf = <<>> THEN <<>> ELSE <<next_line(buf)>>

RECURSIVE CountLF(_)
CountLF(text) ==
    IF text = <<>> THEN 0
    ELSE (IF Head(text) = LF THEN 1 ELSE 0) + CountLF(Tail(text))

\* the exchange of the unary call that has returned
Exchange == [fail |-> status = 0, status |-> status, body |-> body]

\* the values of the lines that are not the literal null and decode into T
RECURSIVE OptionDecoded(_, _)
OptionDecoded(T, lines) ==
    IF lines = <<>> THEN <<>>
    ELSE LET v == parse_line(Head(lines))
             d == IF v = JFail \/ v = JNull THEN None ELSE deserialize(T, v) IN
         (IF d.some THEN <<d.val>> ELSE <<>>) \o OptionDecoded(T, Tail(lines))

Streaming == op \in {"stream", "ndjson"} /\ phase \in {"open", "ended", "dropped"}

-----------------------------------------------------------------------------
(* C11 *)

\* C11: as long as the byte source has not failed, the items the line reader
\* has yielded, followed by the line still accumulating, are the lines of the
\* bytes consumed so far in wire order, and what the caller has received is
\* what the closure lets through of them, in that order, each once and none
\* held back.
C11WireOrder ==
    (Streaming /\ ~faulted)
        => /\ lineLog \o Pending = SingleChunkItems(<<>>, Consumed)
           /\ out = IF op = "stream" THEN StreamFiltered(lineLog)
                    ELSE NdjsonFiltered(target, lineLog)

\* three lines of one body delivered in three or more chunks
C11Witness ==
    /\ op = "stream"
    /\ phase = "open"
    /\ src = "open"
    /\ wire = <<D1, LF, C3, A9, LF, D1, D1, LF>>
    /\ nchunks >= 3
    /\ out = << <<D1>>, <<C3, A9>>, <<D1, D1>> >>

(* C12 *)

\* C12: when the accumulated bytes of earlier chunks end with CR and the next
\* chunk starts with LF, the read of that chunk yields exactly one line, the
\* accumulated text without the CR, takes the LF only, and starts the next
\* line empty; stream delivers that line once, or nothing when it is empty.
C12SplitTerminator ==
    [][(/\ Alive
        /\ buf # <<>> /\ buf[Len(buf)] = CR /\ ValidUtf8(buf)
        /\ chunk # <<>> /\ chunk[1] = LF
        /\ chunk' # chunk)
          => LET text == SubSeq(buf, 1, Len(buf) - 1) IN
             /\ lineLog' = Append(lineLog, OkItem(text))
             /\ memchr(LF, text, 1) = 0
             /\ buf' = <<>>
             /\ chunk' = Tail(chunk)
             /\ op = "stream"
                   => out' = IF text = <<>> THEN out ELSE Append(out, text)]_vars

\* 1 CR LF in three chunks of one byte: the cut falls between CR and LF
C12Witness ==
    /\ op = "stream"
    /\ wire = <<D1, CR, LF>>
    /\ nchunks = 3
    /\ chunk = <<>>
    /\ buf = <<>>
    /\ lineLog = <<OkItem(<<D1>>)>>
    /\ out = << <<D1>> >>

(* C13 *)

\* C13: an open stream ends only when the byte source has ended or failed and
\* nothing is left to emit, or when the caller drops it; while the byte source
\* is open no step ends the sequence, whatever the line it reads.
C13EndConditions ==
    [][/\ (phase = "open" /\ phase' # "open")
             => \/ phase' = "dropped"
                \/ /\ phase' = "ended"
                   /\ src \in {"eof", "err"}
                   /\ chunk = <<>>
                   /\ buf = <<>>
       /\ phase' = "ended" => src' \in {"eof", "err"}]_vars

\* an undecodable line read from an open source, and an item delivered after it
C13Witness ==
    /\ op = "ndjson"
    /\ target = "i64"
    /\ phase = "open"
    /\ src = "open"
    /\ wire = <<D1, LF, C3, A9, LF, D1, D1, LF>>
    /\ parsed = << <<D1>>, <<C3, A9>>, <<D1, D1>> >>
    /\ out = <<1, 11>>

(* C16 *)

\* C16: the accumulated bytes never contain an LF, and whenever the line reader
\* has no chunk left and asks the open byte source for more, every line
\* terminated in the bytes received so far has been yielded.
C16BufferInvariant ==
    /\ memchr(LF, buf, 1) = 0
    /\ (Streaming /\ phase = "open" /\ src = "open" /\ chunk = <<>> /\ ~faulted)
          => /\ Len(lineLog) = CountLF(SubSeq(wire, 1, pos))
             /\ buf = Residual(SubSeq(wire, 1, pos))

\* one chunk with five terminators, all five lines yielded before the next read
C16Witness ==
    /\ phase = "open"
    /\ src = "open"
    /\ chunk = <<>>
    /\ wire = <<LF, D1, LF, LF, D1, D1, LF, LF>>
    /\ nchunks = 1
    /\ pos = 8
    /\ Len(lineLog) = 5

(* C17 *)

\* C17: whatever get_raw returned for an exchange is what post_raw returns for
\* it, and the other way round.
C17SameClassification ==
    phase = "done"
        => /\ op = "get_raw" => result = post_raw(Exchange)
           /\ op = "post_raw" => result = get_raw(Exchange)

C17Witness ==
    /\ op = "get_raw"
    /\ phase = "done"
    /\ status = 500
    /\ body = ""
    /\ result = ApiError(500, JNull)

(* C18 *)

\* C18: get and post return Ok exactly for a status of 200 or 201 with a body
\* that parses, the value being the parse; a success status with a body that
\* does not parse returns the decoding error; every error of get_raw or
\* post_raw is returned as it is.
C18JsonWrappers ==
    (op \in {"get", "post"} /\ phase = "done")
        => LET raw == IF op = "get" THEN get_raw(Exchange)
                      ELSE post_raw(Exchange) IN
           /\ result.kind = "Ok"
                 <=> (status \in SuccessSet /\ from_str(body) # JFail)
           /\ result.kind = "Ok" => result.val = from_str(body)
           /\ (status \in SuccessSet /\ from_str(body) = JFail)
                 => result = DecodeErr
           /\ raw.kind # "Ok" => result = raw

C18Witness ==
    /\ op = "get"
    /\ phase = "done"
    /\ status = 200
    /\ body = ""
    /\ result = DecodeErr

(* C19 *)

\* C19: the items ndjson has delivered are the values of the parsed lines that
\* are not the literal null and decode into the target type, one item each in
\* line order; a null line gives no item for any target type.
C19NullLine ==
    op = "ndjson" => out = OptionDecoded(target, parsed)

\* null then 1 with the target Value: only the 1 is delivered
C19Witness ==
    /\ op = "ndjson"
    /\ target = "Value"
    /\ phase = "ended"
    /\ wire = NullText \o <<LF, D1, LF>>
    /\ parsed = <<NullText, <<D1>>>>
    /\ out = <<JNum(1)>>

(* C14 *)

\* C14: no step changes the stored credential, and the request of every call
\* that has sent one carries the header Authorization: Bearer <the credential
\* given to Lichess::new>.
C14Credential ==
    [][/\ key' = key
       /\ op' # "none" => sent'.auth = <<"Bearer", key'>>]_vars

C14Witness ==
    /\ op = "ndjson"
    /\ phase = "open"
    /\ key = "tokenB"
    /\ sent.method = "GET"
    /\ sent.auth = <<"Bearer", "tokenB">>

(* C15 *)

\* the bytes the line reader of the second stream has taken out of its chunks
Consumed2 == SubSeq(wire2, 1, pos2 - Len(chunk2))

RECURSIVE Flatten(_)
Flatten(lines) ==
    IF lines = <<>> THEN <<>> ELSE Head(lines) \o Flatten(Tail(lines))

BytesOf(text) == {text[i] : i \in 1..Len(text)}

\* C15: with two streams open on one client and their steps interleaved, each
\* stream has at every moment delivered what it delivers alone for the bytes it
\* has consumed, its accumulated bytes are the unterminated rest of its own
\* bytes, and no byte of one body is in a line of the other.
C15Isolation ==
    /\ phase \in {"open", "ended"}
          => /\ out \o StreamFiltered(Pending)
                   = StreamFiltered(SingleChunkItems(<<>>, Consumed))
             /\ buf = Residual(Consumed) \/ (src = "eof" /\ buf = <<>>)
             /\ BytesOf(Flatten(out)) \cap {C3, A9} = {}
    /\ phase2 \in {"open", "ended"}
          => /\ out2 \o StreamFiltered(IF buf2 = <<>> THEN <<>>
                                       ELSE <<next_line(buf2)>>)
                   = StreamFiltered(SingleChunkItems(<<>>, Consumed2))
             /\ buf2 = Residual(Consumed2) \/ (src2 = "eof" /\ buf2 = <<>>)
             /\ D1 \notin BytesOf(Flatten(out2))
    /\ (phase = "ended" /\ phase2 = "ended")
          => /\ out = StreamFiltered(SingleChunkItems(<<>>, wire))
             /\ out2 = StreamFiltered(SingleChunkItems(<<>>, wire2))

\* both streams have delivered a line and both hold an unfinished line
C15Witness ==
    /\ phase = "open"
    /\ phase2 = "open"
    /\ out = << <<D1>> >>
    /\ out2 = << <<C3, A9>> >>
    /\ buf = <<D1>>
    /\ buf2 = <<C3>>

====
